---- MODULE Spec2Model ----
(***************************************************************************)
(* A model of the batch renamer of src/src/main.rs: main() runs           *)
(* list_files, handle_degenerate_cases, write_filenames_to_buffer,        *)
(* read_filenames_from_buffer, execute_rename and print_state in order.   *)
(*                                                                         *)
(* A file name is a sequence of one-character strings, a path is a        *)
(* directory and a final component, the filesystem maps the paths that    *)
(* hold a directory entry to that entry.  The glob matcher, the external  *)
(* edit of the scratch buffer and the operating system's failures are the *)
(* environment: their results are drawn from the bounded sets below.      *)
(* Edited lines hold no path separator and are neither "." nor "..";      *)
(* every file name is valid UTF-8, so to_str() succeeds.                  *)
(***************************************************************************)
EXTENDS Naturals, Sequences, FiniteSets, TLC

VARIABLES
    args,          \* Arguments: files (each pattern's glob outcome), include_extensions, dry_run
    fs,            \* the directory entries on disk: path -> [kind, id]
    fs0,           \* the filesystem when the run started
    files,         \* Vec<FileToRename>
    buffer,        \* the scratch file: [exists, content]
    written,       \* what write_filenames_to_buffer wrote
    read_result,   \* the Result of read_filenames_from_buffer, which main drops
    index,         \* execute_rename's loop index
    syscalls,      \* every fs::rename call made: [from, to, ok]
    stdout,        \* the lines printed
    pc,            \* main's position
    exit_code      \* the process's exit status once pc = "exited"

vars == <<args, fs, fs0, files, buffer, written, read_result, index,
          syscalls, stdout, pc, exit_code>>

(***************************** bounds *************************************)
\* the patterns given, and the paths all of them match together
MaxPatterns == 2
MaxFiles == 2

(***************************** strings ************************************)
NL == "\n"
DOT == "."

\* char::is_whitespace, on the characters of the model
IsWhitespace(c) == c \in {" ", "\t", "\r", "\n"}

RECURSIVE TrimStart(_)
TrimStart(s) ==
    IF s # <<>> /\ IsWhitespace(Head(s)) THEN TrimStart(Tail(s)) ELSE s

RECURSIVE TrimEnd(_)
TrimEnd(s) ==
    IF s # <<>> /\ IsWhitespace(s[Len(s)])
    THEN TrimEnd(SubSeq(s, 1, Len(s) - 1)) ELSE s

\* str::trim
Trim(s) == TrimEnd(TrimStart(s))

\* the position of the first c in s, 0 when there is none
RECURSIVE IndexFrom(_, _, _)
IndexFrom(s, c, i) ==
    IF i > Len(s) THEN 0
    ELSE IF s[i] = c THEN i ELSE IndexFrom(s, c, i + 1)

\* the position of the last c in s, 0 when there is none
RECURSIVE LastIndexFrom(_, _, _)
LastIndexFrom(s, c, i) ==
    IF i = 0 THEN 0
    ELSE IF s[i] = c THEN i ELSE LastIndexFrom(s, c, i - 1)

StripCR(s) ==
    IF s # <<>> /\ s[Len(s)] = "\r" THEN SubSeq(s, 1, Len(s) - 1) ELSE s

\* str::lines: split at "\n", a final empty piece is no line
RECURSIVE Lines(_)
Lines(s) ==
    IF s = <<>> THEN <<>>
    ELSE LET i == IndexFrom(s, NL, 1)
         IN  IF i = 0 THEN <<StripCR(s)>>
             ELSE <<StripCR(SubSeq(s, 1, i - 1))>>
                  \o Lines(SubSeq(s, i + 1, Len(s)))

RECURSIVE Flatten(_)
Flatten(ss) == IF ss = <<>> THEN <<>> ELSE Head(ss) \o Flatten(Tail(ss))

(****************************** paths *************************************)
None == [is_some |-> FALSE, val |-> <<>>]
Some(v) == [is_some |-> TRUE, val |-> v]
UnwrapOrDefault(o) == IF o.is_some THEN o.val ELSE <<>>

\* PathBuf::new()
EmptyPath == [dir |-> "", name |-> <<>>]

\* Path::file_name of a path; a root path has none
PathFileName(p) == IF p.name = <<>> THEN None ELSE Some(p.name)

\* std's rsplit_file_at_dot: <<before, after>> the last dot
RsplitFileAtDot(file) ==
    IF file = <<DOT, DOT>> THEN <<Some(file), None>>
    ELSE LET i == LastIndexFrom(file, DOT, Len(file))
         IN  IF i = 0 THEN <<None, Some(file)>>
             ELSE IF i = 1 THEN <<Some(file), None>>
             ELSE <<Some(SubSeq(file, 1, i - 1)),
                    Some(SubSeq(file, i + 1, Len(file)))>>

\* Path::file_stem: before.or(after)
FileStemOf(file) ==
    LET r == RsplitFileAtDot(file) IN IF r[1].is_some THEN r[1] ELSE r[2]

\* Path::extension: before.and(after)
ExtensionOf(file) ==
    LET r == RsplitFileAtDot(file) IN IF r[1].is_some THEN r[2] ELSE None

PathFileStem(p) == IF p.name = <<>> THEN None ELSE FileStemOf(p.name)
PathExtension(p) == IF p.name = <<>> THEN None ELSE ExtensionOf(p.name)

\* PathBuf::with_extension on a one-component path
WithExtension(name, ext) ==
    IF name = <<>> THEN name
    ELSE FileStemOf(name).val \o (IF ext = <<>> THEN <<>> ELSE <<DOT>> \o ext)

\* Path::with_file_name
WithFileName(p, name) == [dir |-> p.dir, name |-> name]

(*************************** the filesystem *******************************)
\* Path::exists follows symbolic links: false for a missing path and for a
\* broken symbolic link
PathExists(f, p) == p \in DOMAIN f /\ f[p].kind # "broken_symlink"

\* fs::rename(p, q) succeeds when p has a directory entry and q names an
\* entry of an existing directory; an entry already at q is replaced
RenameCanSucceed(f, p, q) == p \in DOMAIN f /\ q.name # <<>>

RenameApply(f, p, q) ==
    [x \in (DOMAIN f \ {p}) \cup {q} |-> IF x = q THEN f[p] ELSE f[x]]

\* rename_file_if_safe's result when the operating system adds no failure
RenameFileIfSafeOk(f, p, q) == ~PathExists(f, q) /\ RenameCanSucceed(f, p, q)

(***************************** messages ***********************************)
Line(text) == [text |-> text, from |-> EmptyPath, to |-> EmptyPath]
PairLine(p, q) == [text |-> <<"{} -> {}">>, from |-> p, to |-> q]
ErrorLine(text) == Line(<<"ERROR. ">> \o text)

\* Vec<String>::join
RECURSIVE Join(_, _)
Join(ss, sep) ==
    IF ss = <<>> THEN <<>>
    ELSE IF Len(ss) = 1 THEN ss[1]
    ELSE ss[1] \o <<sep>> \o Join(Tail(ss), sep)

\* format!("#{}", n)
HashIndex(n) == <<"#", ToString(n)>>

(***************************** list_files *********************************)
FileToRename(path, name) ==
    [full_path_before |-> path, full_path_after |-> EmptyPath,
     filename_before |-> name, filename_after |-> <<>>,
     outcome |-> "Unchanged"]

RelevantPartOfFileName(path, include_extensions) ==
    IF include_extensions THEN PathFileName(path) ELSE PathFileStem(path)

\* the inner loop over one pattern's paths; acc.died: die! was reached
RECURSIVE ScanPaths(_, _, _, _)
ScanPaths(items, idx, incl, acc) ==
    IF items = <<>> \/ acc.died THEN acc
    ELSE LET item == Head(items)
             part == RelevantPartOfFileName(item.path, incl)
         IN  IF ~item.ok
             THEN ScanPaths(Tail(items), idx, incl,
                      [acc EXCEPT !.invalid = Append(@, idx)])
             ELSE IF ~part.is_some
             THEN [acc EXCEPT !.died = TRUE]
             ELSE ScanPaths(Tail(items), idx, incl,
                      [acc EXCEPT !.filenames =
                           Append(@, FileToRename(item.path, part.val))])

\* the outer loop over the patterns, 0-based index i
RECURSIVE ScanPatterns(_, _, _, _)
ScanPatterns(patterns, i, incl, acc) ==
    IF i >= Len(patterns) \/ acc.died THEN acc
    ELSE LET glob_result == patterns[i + 1]
         IN  IF ~glob_result.ok
             THEN ScanPatterns(patterns, i + 1, incl,
                      [acc EXCEPT !.invalid = Append(@, i)])
             ELSE ScanPatterns(patterns, i + 1, incl,
                      ScanPaths(glob_result.paths, i, incl, acc))

ListFilesScan(a) ==
    ScanPatterns(a.files, 0, a.include_extensions,
                 [filenames |-> <<>>, invalid |-> <<>>, died |-> FALSE])

\* the message of the match on invalid_indices.len()
PatternErrorMessage(invalid_indices) ==
    IF Len(invalid_indices) = 1
    THEN <<"Unable to create search pattern from argument ">>
         \o HashIndex(invalid_indices[1]) \o <<".">>
    ELSE LET string_indices ==
                 [k \in 1..Len(invalid_indices) |-> HashIndex(invalid_indices[k])]
             last == string_indices[Len(string_indices)]
             rest == SubSeq(string_indices, 1, Len(string_indices) - 1)
         IN  <<"Unable to create search pattern from arguments ">>
             \o Join(rest, ", ") \o <<" and ">> \o last \o <<".">>

Die(text) ==
    /\ stdout' = Append(stdout, ErrorLine(text))
    /\ pc' = "exited"
    /\ exit_code' = 1

ListFiles ==
    /\ pc = "list_files"
    /\ LET r == ListFilesScan(args)
       IN  IF r.died
           THEN /\ Die(<<"Unable to get file name out of path.">>)
                /\ UNCHANGED files
           ELSE IF Len(r.invalid) = 0
           THEN /\ files' = r.filenames
                /\ pc' = "handle_degenerate_cases"
                /\ UNCHANGED <<stdout, exit_code>>
           ELSE /\ Die(PatternErrorMessage(r.invalid))
                /\ UNCHANGED files
    /\ UNCHANGED <<args, fs, fs0, buffer, written, read_result, index, syscalls>>

(************************ handle_degenerate_cases *************************)
HandleDegenerateCases ==
    /\ pc = "handle_degenerate_cases"
    /\ IF Len(files) = 0
       THEN /\ stdout' = Append(stdout,
                   Line(IF Len(args.files) = 1
                        THEN <<"No files matched pattern.">>
                        ELSE <<"No files matched any patterns.">>))
            /\ pc' = "exited"
            /\ exit_code' = 0
       ELSE /\ pc' = "write_filenames_to_buffer"
            /\ UNCHANGED <<stdout, exit_code>>
    /\ UNCHANGED <<args, fs, fs0, files, buffer, written, read_result, index,
                   syscalls>>

(********************** write_filenames_to_buffer *************************)
\* one "{}{}" of filename_before and "\n" per file
BufferText(fl) == Flatten([n \in 1..Len(fl) |-> fl[n].filename_before \o <<NL>>])

WriteFilenamesToBuffer ==
    /\ pc = "write_filenames_to_buffer"
    /\ buffer' = [exists |-> TRUE, content |-> BufferText(files)]
    /\ written' = BufferText(files)
    /\ pc' = "external_edit"
    /\ UNCHANGED <<args, fs, fs0, files, read_result, index, syscalls, stdout,
                   exit_code>>

\* File::create or write! fails
WriteFilenamesToBufferFails ==
    /\ pc = "write_filenames_to_buffer"
    /\ \E text \in {<<"Unable to open buffer file for writing.">>,
                    <<"Unable to write filenames to buffer file.">>} :
           Die(text)
    /\ UNCHANGED <<args, fs, fs0, files, buffer, written, read_result, index,
                   syscalls>>

(************************* the external edit ******************************)
\* the lines an edit may leave in the scratch file
EditLines == { <<" ">>, <<" ", "a", ".", "t", " ">>, <<"c">> }

\* the sequences over S of length lo..hi
RECURSIVE SeqsOfLen(_, _)
SeqsOfLen(S, n) ==
    IF n = 0 THEN {<<>>}
    ELSE {Append(q, x) : q \in SeqsOfLen(S, n - 1), x \in S}

SeqsBetween(S, lo, hi) == UNION {SeqsOfLen(S, n) : n \in lo..hi}

\* an edit leaves one line fewer than it found, as many, or one more
EditedContents(n) ==
    {Flatten([k \in 1..Len(ls) |-> ls[k] \o <<NL>>]) :
        ls \in SeqsBetween(EditLines, IF n = 0 THEN 0 ELSE n - 1, n + 1)}

\* between the write and the read something else may rewrite the scratch
\* file, remove it, or leave it alone
ExternalEdit ==
    /\ pc = "external_edit"
    /\ \/ UNCHANGED buffer
       \/ buffer' = [exists |-> FALSE, content |-> <<>>]
       \/ \E c \in EditedContents(Len(files)) :
              buffer' = [exists |-> TRUE, content |-> c]
    /\ pc' = "read_filenames_from_buffer"
    /\ UNCHANGED <<args, fs, fs0, files, written, read_result, index, syscalls,
                   stdout, exit_code>>

(********************** read_filenames_from_buffer ************************)
NonEmpty(s) == s # <<>>

\* read_filenames_from_file on a readable scratch file
FilenamesComingIn(content) ==
    LET ls == Lines(content)
    IN  SelectSeq([k \in 1..Len(ls) |-> Trim(ls[k])], NonEmpty)

ResultOk == [ok |-> TRUE, text |-> <<>>]
ResultErr(text) == [ok |-> FALSE, text |-> text]

ValidateFilenames(expected_count, filenames_coming_in) ==
    IF Len(filenames_coming_in) < expected_count
    THEN ResultErr(<<"Not enough filenames in text file after edit (",
                     ToString(Len(filenames_coming_in)), " instead of ",
                     ToString(expected_count), ").">>)
    ELSE IF Len(filenames_coming_in) > expected_count
    THEN ResultErr(<<"Too many filenames in text file after edit (",
                     ToString(Len(filenames_coming_in)), " instead of ",
                     ToString(expected_count), ").">>)
    ELSE ResultOk

\* the final filename given to one file
FilenameAfter(file, new_filename, include_extensions) ==
    IF include_extensions THEN new_filename
    ELSE WithExtension(new_filename,
                       UnwrapOrDefault(PathExtension(file.full_path_before)))

PlanFile(file, new_filename, include_extensions) ==
    LET after == FilenameAfter(file, new_filename, include_extensions)
    IN  [file EXCEPT !.filename_after = after,
                     !.full_path_after = WithFileName(file.full_path_before, after)]

\* the zip pairing the last name with the first file
ZipPlanReversed(fl, names, include_extensions) ==
    [k \in 1..Len(fl) |->
        IF k <= Len(names)
        THEN PlanFile(fl[k], names[Len(names) + 1 - k], include_extensions)
        ELSE fl[k]]

\* files.iter_mut().zip(filenames_coming_in.iter())
ZipPlan(fl, names, include_extensions) ==
    [k \in 1..Len(fl) |->
        IF k <= Len(names) THEN PlanFile(fl[k], names[k], include_extensions)
        ELSE fl[k]]

\* the Result read_filenames_from_buffer returns
ReadResult(buf, fl) ==
    IF ~buf.exists THEN ResultErr(<<"No such file or directory">>)
    ELSE ValidateFilenames(Len(fl), FilenamesComingIn(buf.content))

\* main's use of that Result
MainAfterRead(r) == "execute_rename"

ReadFilenamesFromBuffer ==
    /\ pc = "read_filenames_from_buffer"
    /\ LET r == ReadResult(buffer, files)
       IN  /\ read_result' = r
           /\ files' = IF r.ok
                       THEN ZipPlan(files, FilenamesComingIn(buffer.content),
                                    args.include_extensions)
                       ELSE files
           /\ pc' = MainAfterRead(r)
    /\ UNCHANGED <<args, fs, fs0, buffer, written, index, syscalls, stdout,
                   exit_code>>

(**************************** execute_rename ******************************)
\* a record of one fs::rename(p, q): ok, its result; replaced, whether q held
\* a directory entry when it was called
Call(f, p, q, ok) == [from |-> p, to |-> q, ok |-> ok, replaced |-> q \in DOMAIN f]

\* the dry run without its exit(0): the listing, then the loop
ExecuteRenameDryRunNoExit ==
    /\ pc = "execute_rename"
    /\ args.dry_run
    /\ stdout' = stdout \o [k \in 1..Len(files) |->
                    PairLine(files[k].full_path_before, files[k].full_path_after)]
    /\ index' = 0
    /\ pc' = "rename_loop"
    /\ UNCHANGED <<args, fs, fs0, files, buffer, written, read_result, syscalls,
                   exit_code>>

\* if args.dry_run == true: print every pair, exit(0)
ExecuteRenameDryRun ==
    /\ pc = "execute_rename"
    /\ args.dry_run
    /\ stdout' = stdout \o [k \in 1..Len(files) |->
                    PairLine(files[k].full_path_before, files[k].full_path_after)]
    /\ pc' = "exited"
    /\ exit_code' = 0
    /\ UNCHANGED <<args, fs, fs0, files, buffer, written, read_result, index,
                   syscalls>>

\* let mut index = 0; let mut rollback = false;
ExecuteRenameBegin ==
    /\ pc = "execute_rename"
    /\ ~args.dry_run
    /\ index' = 0
    /\ pc' = "rename_loop"
    /\ UNCHANGED <<args, fs, fs0, files, buffer, written, read_result, syscalls,
                   stdout, exit_code>>

\* ActionWhenStuck::Skip in place of the die!
OnRenameErrorSkip == "skip"

\* what the loop does when a rename fails
OnRenameError == "die"

\* one iteration of while index < files.len()
RenameLoopStep ==
    /\ pc = "rename_loop"
    /\ index < Len(files)
    /\ LET file == files[index + 1]
           p == file.full_path_before
           q == file.full_path_after
       IN  IF q = p
           THEN /\ files' = [files EXCEPT ![index + 1].outcome = "RenameWasNoop"]
                /\ index' = index + 1
                /\ UNCHANGED <<fs, syscalls, stdout, pc, exit_code>>
           ELSE IF RenameFileIfSafeOk(fs, p, q)
           THEN /\ fs' = RenameApply(fs, p, q)
                /\ syscalls' = Append(syscalls, Call(fs, p, q, TRUE))
                /\ files' = [files EXCEPT ![index + 1].outcome = "Renamed"]
                /\ index' = index + 1
                /\ UNCHANGED <<stdout, pc, exit_code>>
           ELSE /\ syscalls' = IF PathExists(fs, q) THEN syscalls
                               ELSE Append(syscalls, Call(fs, p, q, FALSE))
                /\ IF OnRenameError = "die"
                   THEN /\ Die(<<"file renaming was not safe">>)
                        /\ UNCHANGED index
                   ELSE /\ index' = index + 1
                        /\ UNCHANGED <<stdout, pc, exit_code>>
                /\ UNCHANGED <<fs, files>>
    /\ UNCHANGED <<args, fs0, buffer, written, read_result>>

\* fs::rename fails for a reason of the operating system's
RenameLoopOsError ==
    /\ pc = "rename_loop"
    /\ index < Len(files)
    /\ LET file == files[index + 1]
           p == file.full_path_before
           q == file.full_path_after
       IN  /\ q # p
           /\ RenameFileIfSafeOk(fs, p, q)
           /\ syscalls' = Append(syscalls, Call(fs, p, q, FALSE))
    /\ Die(<<"file renaming was not safe">>)
    /\ UNCHANGED <<args, fs, fs0, files, buffer, written, read_result, index>>

\* the flag set
RollbackSet == TRUE

\* let mut rollback = false, never assigned again
Rollback == FALSE

\* the loop under if rollback == true, run to its end or to its die!
RECURSIVE UndoRenames(_, _)
UndoRenames(st, i) ==
    IF i >= Len(st.files) \/ st.died THEN st
    ELSE LET file == st.files[i + 1]
             p == file.full_path_after
             q == file.full_path_before
         IN  IF file.outcome # "Renamed" THEN UndoRenames(st, i + 1)
             ELSE IF RenameFileIfSafeOk(st.fs, p, q)
             THEN UndoRenames(
                      [st EXCEPT !.fs = RenameApply(st.fs, p, q),
                                 !.calls = Append(@, Call(st.fs, p, q, TRUE)),
                                 !.files[i + 1].outcome = "Unchanged"],
                      i + 1)
             ELSE [st EXCEPT !.died = TRUE,
                             !.calls = IF PathExists(st.fs, q) THEN @
                                       ELSE Append(@, Call(st.fs, p, q, FALSE))]

\* the loop has ended: the rollback branch, then the return to main
ExecuteRenameEnd ==
    /\ pc = "rename_loop"
    /\ index >= Len(files)
    /\ IF Rollback
       THEN LET st == UndoRenames([files |-> files, fs |-> fs,
                                   calls |-> syscalls, died |-> FALSE], 0)
            IN  /\ files' = st.files
                /\ fs' = st.fs
                /\ syscalls' = st.calls
                /\ IF st.died
                   THEN /\ stdout' = stdout \o <<Line(<<"Undoing renames...">>),
                                ErrorLine(<<"file renaming was not safe">>)>>
                        /\ pc' = "exited"
                        /\ exit_code' = 1
                   ELSE /\ stdout' = Append(stdout, Line(<<"Undoing renames...">>))
                        /\ pc' = "print_state"
                        /\ UNCHANGED exit_code
       ELSE /\ pc' = "print_state"
            /\ UNCHANGED <<files, fs, syscalls, stdout, exit_code>>
    /\ UNCHANGED <<args, fs0, buffer, written, read_result, index>>

(****************************** print_state *******************************)
CountOutcome(fl, o) == Cardinality({k \in 1..Len(fl) : fl[k].outcome = o})

PrintStateLines(fl) ==
    LET renamed == CountOutcome(fl, "Renamed")
        noop == CountOutcome(fl, "RenameWasNoop")
        unchanged == CountOutcome(fl, "Unchanged")
    IN  <<Line(<<IF unchanged = 0 THEN "green" ELSE "yellow",
                 "DONE.  renamed             ... ", ToString(renamed)>>)>>
        \o (IF noop > 0
            THEN <<Line(<<"       skipped (no change) ... ", ToString(noop)>>)>>
            ELSE <<>>)
        \o (IF unchanged > 0
            THEN <<Line(<<"       skipped (problem)   ... ", ToString(unchanged)>>)>>
            ELSE <<>>)

\* print_state, then main returns
PrintState ==
    /\ pc = "print_state"
    /\ stdout' = stdout \o PrintStateLines(files)
    /\ pc' = "exited"
    /\ exit_code' = 0
    /\ UNCHANGED <<args, fs, fs0, files, buffer, written, read_result, index,
                   syscalls>>

(******************************* inputs ***********************************)
Dir == "d"
RootPath == [dir |-> "/", name |-> <<>>]

\* the names a directory entry may have when the run starts
DiskNameSeq == << <<"a", ".", "t">>, <<" ", "b">>, <<"a", ".", "b", ".", "t">> >>
DiskNames == {DiskNameSeq[k] : k \in 1..Len(DiskNameSeq)}
DiskPaths == {[dir |-> Dir, name |-> n] : n \in DiskNames}

\* what tells one initial entry from another once it has been renamed
FileId(p) == CHOOSE k \in 1..Len(DiskNameSeq) : DiskNameSeq[k] = p.name

\* an entry is a file or a symbolic link whose destination is missing
\* the one name that may be a symbolic link whose destination is missing
LinkNames == { <<"a", ".", "t">> }

Filesystems ==
    {k \in UNION {[S -> {"file", "broken_symlink"}] : S \in SUBSET DiskPaths} :
        \A p \in DOMAIN k : k[p] = "broken_symlink" => p.name \in LinkNames}

Entries(kinds) == [p \in DOMAIN kinds |-> [kind |-> kinds[p], id |-> FileId(p)]]

WalkItems(f) ==
    {[ok |-> TRUE, path |-> p] : p \in DOMAIN f \cup {RootPath}}
        \cup {[ok |-> FALSE, path |-> EmptyPath]}

\* globwalk::glob fails, or walks at most m paths
GlobOutcomes(f, m) ==
    {[ok |-> FALSE, paths |-> <<>>]}
        \cup {[ok |-> TRUE, paths |-> ps] : ps \in SeqsBetween(WalkItems(f), 0, m)}

\* at most n patterns that walk at most m paths together
RECURSIVE PatternSeqs(_, _, _)
PatternSeqs(f, n, m) ==
    IF n = 0 THEN {<<>>}
    ELSE {<<>>} \cup
         UNION {{<<g>> \o rest : rest \in PatternSeqs(f, n - 1, m - Len(g.paths))} :
                    g \in GlobOutcomes(f, m)}

Init ==
    /\ \E kinds \in Filesystems :
           /\ fs0 = Entries(kinds)
           /\ fs = Entries(kinds)
    /\ \E patterns \in PatternSeqs(fs0, MaxPatterns, MaxFiles),
          include_extensions \in BOOLEAN, dry_run \in BOOLEAN :
           /\ args = [files |-> patterns,
                      include_extensions |-> include_extensions,
                      dry_run |-> dry_run]
    /\ files = <<>>
    /\ buffer = [exists |-> FALSE, content |-> <<>>]
    /\ written = <<>>
    /\ read_result = ResultOk
    /\ index = 0
    /\ syscalls = <<>>
    /\ stdout = <<>>
    /\ pc = "list_files"
    /\ exit_code = 0

Next ==
    \/ ListFiles
    \/ HandleDegenerateCases
    \/ WriteFilenamesToBuffer
    \/ WriteFilenamesToBufferFails
    \/ ExternalEdit
    \/ ReadFilenamesFromBuffer
    \/ ExecuteRenameDryRun
    \/ ExecuteRenameBegin
    \/ RenameLoopStep
    \/ RenameLoopOsError
    \/ ExecuteRenameEnd
    \/ PrintState

Spec == Init /\ [][Next]_vars

(******************************* claims ***********************************)
\* the scratch file has been written and read back
ReadDone ==
    written # <<>> /\ pc \notin {"external_edit", "read_filenames_from_buffer"}

\* the names read back are not as many as the entries
CountMismatch ==
    /\ ReadDone
    /\ buffer.exists
    /\ Len(FilenamesComingIn(buffer.content)) # Len(files)

IsPairLine(l) == l.text = <<"{} -> {}">>
IsErrorLine(l) == l.text # <<>> /\ l.text[1] = "ERROR. "
PairsPrinted == \E k \in 1..Len(stdout) : IsPairLine(stdout[k])
ErrorPrinted == \E k \in 1..Len(stdout) : IsErrorLine(stdout[k])

\* C1: when the number of non-empty trimmed lines read back differs from the
\* number of entries, the run aborts before any rename is attempted:
\* execute_rename is not entered (neither its loop nor its dry-run listing),
\* no fs::rename call is made and the filesystem is unchanged.
C1_CountMismatchAbortsBeforeRename ==
    CountMismatch =>
        /\ pc \notin {"rename_loop", "print_state"}
        /\ ~PairsPrinted
        /\ syscalls = <<>>
        /\ fs = fs0

\* a fatal error happened: a die! was reached, or the read of the buffer
\* returned an error
FatalError == ErrorPrinted \/ (ReadDone /\ ~read_result.ok)

\* C2: the process exits with status 0 only on success or on the degenerate
\* no-match case, and with a non-zero status on every fatal error, whatever
\* dry_run and include_extensions are.
C2_ExitStatus ==
    pc = "exited" => (exit_code = 0 <=> ~FatalError)

Ids(f) == {f[p].id : p \in DOMAIN f}

\* C3: a rename whose target holds a directory entry is never performed, and
\* no run overwrites or loses a file: every entry the filesystem held at the
\* start it still holds.
C3_ConflictRefusal ==
    /\ \A k \in 1..Len(syscalls) : syscalls[k].ok => ~syscalls[k].replaced
    /\ Ids(fs) = Ids(fs0)

\* C4: if the scratch buffer is read back as it was written, every entry's
\* target path is its original path, no filesystem call is made, and every
\* entry the executor has processed is RenameWasNoop.
C4_UnchangedBufferIsNoop ==
    (ReadDone /\ buffer.exists /\ buffer.content = written) =>
        /\ \A k \in 1..Len(files) :
               /\ files[k].full_path_after = files[k].full_path_before
               /\ (pc = "print_state" => files[k].outcome = "RenameWasNoop")
        /\ syscalls = <<>>
        /\ fs = fs0

\* the final filename C5 states: the edited name verbatim, or the edited stem
\* with the original path's extension appended
ClaimedFilename(original, edited, include_extensions) ==
    IF include_extensions THEN edited
    ELSE LET ext == ExtensionOf(original.name)
         IN  IF ext.is_some THEN edited \o <<DOT>> \o ext.val ELSE edited

\* C5: after a read that passed validation, every entry's final filename is
\* its edited name verbatim (include_extensions) or its edited stem with the
\* original extension appended (otherwise), and its target path is the
\* original path with only the final component replaced by that filename.
C5_ExtensionReattachment ==
    (ReadDone /\ read_result.ok) =>
        \A k \in 1..Len(files) :
            LET edited == FilenamesComingIn(buffer.content)[k]
                name == ClaimedFilename(files[k].full_path_before, edited,
                                        args.include_extensions)
            IN  /\ files[k].filename_after = name
                /\ files[k].full_path_after =
                       [dir |-> files[k].full_path_before.dir, name |-> name]

\* the successful fs::rename calls, in the order made
OkCalls == SelectSeq(syscalls, LAMBDA c : c.ok)

\* the entries up to index i whose target differs from their original path
RECURSIVE ChangedUpTo(_, _)
ChangedUpTo(fl, i) ==
    IF i = 0 THEN <<>>
    ELSE ChangedUpTo(fl, i - 1)
         \o (IF fl[i].full_path_after # fl[i].full_path_before
             THEN <<fl[i]>> ELSE <<>>)

\* the filesystem after the renames of cs, made one after the other
RECURSIVE ApplyCalls(_, _)
ApplyCalls(f, cs) ==
    IF cs = <<>> THEN f
    ELSE ApplyCalls(
             [x \in (DOMAIN f \ {Head(cs).from}) \cup {Head(cs).to} |->
                 IF x = Head(cs).to THEN f[Head(cs).from] ELSE f[x]],
             Tail(cs))

\* the executor's loop ended in its die!
LoopDied ==
    /\ pc = "exited"
    /\ stdout # <<>>
    /\ stdout[Len(stdout)] = ErrorLine(<<"file renaming was not safe">>)

\* C6: the executor processes the entries in index order; when the first
\* failing rename is at index k it stops there: every entry before k whose
\* target differs is Renamed by one successful fs::rename, made in index
\* order and never undone, the filesystem is the initial one with exactly
\* those renames applied, and no entry from k on is renamed.
C6_OrderedDurablePrefix ==
    (pc \in {"rename_loop", "print_state"} \/ LoopDied) =>
        /\ index <= Len(files)
        /\ LoopDied =>
               /\ index < Len(files)
               /\ files[index + 1].full_path_after
                      # files[index + 1].full_path_before
        /\ \A j \in 1..Len(files) :
               files[j].outcome =
                   IF j > index THEN "Unchanged"
                   ELSE IF files[j].full_path_after = files[j].full_path_before
                   THEN "RenameWasNoop" ELSE "Renamed"
        /\ LET changed == ChangedUpTo(files, index)
           IN  /\ Len(OkCalls) = Len(changed)
               /\ \A n \in 1..Len(changed) :
                      /\ OkCalls[n].from = changed[n].full_path_before
                      /\ OkCalls[n].to = changed[n].full_path_after
        /\ fs = ApplyCalls(fs0, OkCalls)

\* the loop died at index 1 after the entry at index 0 was renamed
C6_Witness ==
    /\ LoopDied
    /\ index = 1
    /\ files[1].outcome = "Renamed"
    /\ files[1].full_path_after \in DOMAIN fs

\* C7: with dry_run no fs::rename is made, the filesystem and every outcome
\* stay as they were, the Reporter is not reached, and once execute_rename
\* has run the process has exited with status 0 after printing the
\* before/after pair of every entry, in index order.
C7_DryRunPurity ==
    args.dry_run =>
        /\ syscalls = <<>>
        /\ fs = fs0
        /\ \A k \in 1..Len(files) : files[k].outcome = "Unchanged"
        /\ pc \notin {"rename_loop", "print_state"}
        /\ (ReadDone /\ pc = "exited") =>
               /\ exit_code = 0
               /\ Len(stdout) = Len(files)
               /\ \A k \in 1..Len(files) :
                      /\ IsPairLine(stdout[k])
                      /\ stdout[k].from = files[k].full_path_before
                      /\ stdout[k].to = files[k].full_path_after

\* a dry run has listed an entry whose target is taken by another file
C7_Witness ==
    /\ args.dry_run
    /\ pc = "exited"
    /\ PairsPrinted
    /\ \E k \in 1..Len(files) :
           /\ files[k].full_path_after # files[k].full_path_before
           /\ PathExists(fs, files[k].full_path_after)

\* the 0-based indices of the patterns that did not compile or walked an
\* unreadable path
InvalidPatternIndices(patterns) ==
    {i \in 0..(Len(patterns) - 1) :
        \/ ~patterns[i + 1].ok
        \/ \E n \in 1..Len(patterns[i + 1].paths) : ~patterns[i + 1].paths[n].ok}

\* a pattern walked a path with no extractable name
NamelessWalked(a) ==
    \E i \in 1..Len(a.files) : \E n \in 1..Len(a.files[i].paths) :
        /\ a.files[i].paths[n].ok
        /\ a.files[i].paths[n].path.name = <<>>

RECURSIVE Ascending(_)
Ascending(S) ==
    IF S = {} THEN <<>>
    ELSE LET m == CHOOSE x \in S : \A y \in S : x <= y
         IN  <<m>> \o Ascending(S \ {m})

\* the message C8 states: one index in the singular, several as
\* "#i, #j and #k"
ClaimedPatternMessage(S) ==
    LET ix == Ascending(S)
    IN  IF Len(ix) = 1
        THEN <<"Unable to create search pattern from argument ", "#",
               ToString(ix[1]), ".">>
        ELSE <<"Unable to create search pattern from arguments ">>
             \o Join([k \in 1..(Len(ix) - 1) |-> <<"#", ToString(ix[k])>>], ", ")
             \o <<" and ", "#", ToString(ix[Len(ix)]), ".">>

\* C8: when a pattern is invalid (and every walked path has a name)
\* enumeration fails with one error and no entries, nothing is written or
\* renamed, and the message names each invalid pattern index once: the
\* singular phrasing for one index, the comma and "and" phrasing for several.
C8_PatternErrorAggregation ==
    (/\ pc # "list_files"
     /\ InvalidPatternIndices(args.files) # {}
     /\ ~NamelessWalked(args)) =>
        /\ pc = "exited"
        /\ exit_code = 1
        /\ files = <<>>
        /\ ~buffer.exists
        /\ syscalls = <<>>
        /\ stdout =
               <<ErrorLine(ClaimedPatternMessage(InvalidPatternIndices(args.files)))>>

\* the paths the patterns walked, in pattern order and walk order
RECURSIVE EnumeratedPaths(_)
EnumeratedPaths(patterns) ==
    IF patterns = <<>> THEN <<>>
    ELSE [n \in 1..Len(Head(patterns).paths) |-> Head(patterns).paths[n].path]
         \o EnumeratedPaths(Tail(patterns))

ListOk == InvalidPatternIndices(args.files) = {} /\ ~NamelessWalked(args)

\* C9: once enumeration has succeeded the entry list is the enumerated paths,
\* in order, for the rest of the run; and when the edited buffer passes count
\* validation the final filename of the entry at position i is made from the
\* i-th non-empty trimmed line and from no other.
C9_PositionalCorrespondence ==
    (pc # "list_files" /\ ListOk) =>
        LET enumerated == EnumeratedPaths(args.files)
        IN  /\ Len(files) = Len(enumerated)
            /\ \A i \in 1..Len(files) : files[i].full_path_before = enumerated[i]
            /\ (ReadDone /\ read_result.ok) =>
                   LET lines == FilenamesComingIn(buffer.content)
                   IN  \A i \in 1..Len(files) :
                           files[i].filename_after =
                               IF args.include_extensions THEN lines[i]
                               ELSE WithExtension(lines[i],
                                        UnwrapOrDefault(
                                            PathExtension(files[i].full_path_before)))

\* two entries were given two different lines and both were renamed
C9_Witness ==
    /\ pc = "print_state"
    /\ Len(files) = 2
    /\ files[1].full_path_before # files[2].full_path_before
    /\ files[1].filename_after # files[2].filename_after
    /\ files[1].outcome = "Renamed"
    /\ files[2].outcome = "Renamed"

OutcomeInvariant ==
    /\ pc \in {"handle_degenerate_cases", "write_filenames_to_buffer",
               "external_edit", "read_filenames_from_buffer", "execute_rename"}
           => \A k \in 1..Len(files) : files[k].outcome = "Unchanged"
    /\ \A k \in 1..Len(files) :
           /\ files[k].outcome = "RenameWasNoop"
                  => files[k].full_path_after = files[k].full_path_before
           /\ files[k].outcome = "Renamed"
                  => \E n \in 1..Len(syscalls) :
                         /\ syscalls[n].ok
                         /\ syscalls[n].from = files[k].full_path_before
                         /\ syscalls[n].to = files[k].full_path_after
    /\ pc = "print_state" =>
           /\ \A k \in 1..Len(files) :
                  files[k].outcome \in {"Renamed", "RenameWasNoop"}
           /\ CountOutcome(files, "Unchanged") = 0
           /\ CountOutcome(files, "Renamed") + CountOutcome(files, "RenameWasNoop")
                  = Len(files)
           /\ PrintStateLines(files)[1].text[1] = "green"

OutcomeStep ==
    (files # <<>>) =>
        /\ Len(files') = Len(files)
        /\ \A k \in 1..Len(files) :
               files'[k].outcome # files[k].outcome =>
                   /\ files[k].outcome = "Unchanged"
                   /\ \/ /\ files'[k].outcome = "RenameWasNoop"
                         /\ files[k].full_path_after = files[k].full_path_before
                         /\ syscalls' = syscalls
                         /\ fs' = fs
                      \/ /\ files'[k].outcome = "Renamed"
                         /\ Len(syscalls') = Len(syscalls) + 1
                         /\ SubSeq(syscalls', 1, Len(syscalls)) = syscalls
                         /\ syscalls'[Len(syscalls')].ok
                         /\ syscalls'[Len(syscalls')].from = files[k].full_path_before
                         /\ syscalls'[Len(syscalls')].to = files[k].full_path_after
        /\ (Len(syscalls') > Len(syscalls) /\ syscalls'[Len(syscalls')].ok) =>
               \E k \in 1..Len(files) :
                   /\ files[k].outcome = "Unchanged"
                   /\ files'[k].outcome = "Renamed"

\* C10: every entry starts Unchanged; its outcome changes at most once, from
\* Unchanged to RenameWasNoop when its target is its original path (no
\* filesystem call) or to Renamed when its fs::rename succeeded, and a
\* successful fs::rename marks its entry Renamed; Renamed never goes back to
\* Unchanged; when the Reporter runs every entry is Renamed or RenameWasNoop.
C10_OutcomeStateMachine == []OutcomeInvariant /\ [][OutcomeStep]_vars

\* the Reporter is reached with one entry renamed and one a no-op
C10_Witness ==
    /\ pc = "print_state"
    /\ \E j, k \in 1..Len(files) :
           /\ files[j].outcome = "Renamed"
           /\ files[k].outcome = "RenameWasNoop"

====
